---- MODULE Spec2Model ----
(***************************************************************************)
(* Model of src/src/utils.js: the useAsync tracker (reducer state, the     *)
(* mounted-gated dispatch of useSafeDispatch, run / setData / setError /   *)
(* reset and the two continuations run registers on the promise).          *)
(***************************************************************************)
EXTENDS Integers, FiniteSets, Sequences, TLC

\* ---------------------------------------------------------------- bounds
\* number of promises handed to run that may be unsettled at the same time
MaxInFlight == 2

\* number of calls of the debounced setter
MaxCalls == 3
\* largest number of rows and of columns of a grid
MaxRows == 2
MaxCols == 2

\* ---------------------------------------------------------------- values
Null == "null"
\* the values a promise settles with and the values handed to setData/setError
Values == {"X", "Y"}
Statuses == {"idle", "pending", "resolved", "rejected"}

Slots == 1..MaxInFlight

\* const defaultInitialState = {status: 'idle', data: null, error: null}
defaultInitialState == [status |-> "idle", data |-> Null, error |-> Null]

\* (s, a) => ({...s, ...a}) : the keys of a override those of s
reducer(s, a) ==
  [k \in (DOMAIN s) \cup (DOMAIN a) |-> IF k \in DOMAIN a THEN a[k] ELSE s[k]]

\* the argument useAsync is called with: nothing, or a partial state, which
\* may carry a field the tracker itself never writes
NoInitialState == [k \in {} |-> Null]
InitialStates ==
  { NoInitialState,
    [status |-> "pending"],
    [status |-> "resolved", data |-> "Y"],
    [status |-> "rejected", error |-> "Y"],
    [data |-> "X", extra |-> "X"] }

\* the arguments run is called with: a falsy value, a truthy value without a
\* then member, and promises that will resolve or reject with a value
Falsy == [truthy |-> FALSE, then |-> FALSE, outcome |-> "none", value |-> Null]
NoThen == [truthy |-> TRUE, then |-> FALSE, outcome |-> "none", value |-> Null]
Promises ==
  [truthy : {TRUE}, then : {TRUE}, outcome : {"resolve", "reject"}, value : Values]
Arguments == {Falsy, NoThen} \cup Promises

\* a slot that holds no unsettled promise
Free == [truthy |-> FALSE, then |-> FALSE, outcome |-> "free", value |-> Null]

VARIABLES
  state,            \* the reducer state {status, data, error, ...}
  initialStateRef,  \* initialStateRef.current
  mounted,          \* mounted.current of useSafeDispatch
  lifecycle,        \* "rendering" (effect not run yet), "attached", "detached"
  inflight,         \* slot -> promise passed to run whose continuation is pending
  last,             \* the last call or continuation and what it produced
  \* useDebouncedState / debounce
  debounced,        \* the state cell of useDebouncedState
  timeout,          \* the handle kept in debounce's closure (0: undefined)
  timers,           \* the host's pending timers {handle, remaining, args}
  calls,            \* number of calls of the debounced setter
  updates,          \* number of times a timer called setState
  calledArgs,       \* the arguments the debounced setter was called with
  burst,            \* the last setter call: its argument, the time since it
                    \* and the updates applied since it
  \* updateGridState / updateGridCellState
  grid,             \* the grid the function is called with
  result,           \* the grid it returned
  gridCall          \* the call: function, row and column

trackerVars == <<state, initialStateRef, mounted, lifecycle, inflight, last>>
debounceVars == <<debounced, timeout, timers, calls, updates, calledArgs, burst>>
gridVars == <<grid, result, gridCall>>
vars == <<trackerVars, debounceVars, gridVars>>

status == state["status"]
data == state["data"]
error == state["error"]

\* the flags useAsync returns, computed from status at each render
isIdle == status = "idle"
\* the flag compared with a status the tracker never takes
isLoading_typo == status = "loading"
isLoading == status = "pending"
isError == status = "rejected"
isSuccess == status = "resolved"

\* what a call or continuation produced: thrown is a synchronous throw of the
\* call, ret/retval the settlement of the awaitable run returned
Outcome(op, slot, thrown, ret, retval) ==
  [op |-> op, slot |-> slot, thrown |-> thrown, ret |-> ret, retval |-> retval]

\* the dispatch without the mounted check
safeSetState_unguarded(a) == reducer(state, a)

\* (...args) => (mounted.current ? dispatch(...args) : void 0)
safeSetState(a) == IF mounted THEN reducer(state, a) ELSE state

\* !promise || !promise.then
NotAPromise(promise) == ~promise.truthy \/ ~promise.then

FreeSlots == {s \in Slots : inflight[s] = Free}
NextSlot == CHOOSE s \in FreeSlots : \A t \in FreeSlots : s <= t

\* ------------------------------------------------------------ debounce
\* debounce(setState, 200): the quiet period, in time units
DebounceTime == 200

\* clearTimeout(handle): the host drops the timer with that handle, if any
clearTimeout(table, handle) == {t \in table : t.id # handle}

\* setTimeout(cb, time, ...args): the host adds a timer and returns handle
setTimeout(table, handle, time, args) ==
  table \cup {[id |-> handle, remaining |-> time, args |-> args]}

\* the handle the next setTimeout returns
FreshHandle == calls + 1

\* useDebouncedState(initialState), no call made yet
useDebouncedState(initialState) ==
  /\ debounced = initialState
  /\ timeout = 0
  /\ timers = {}
  /\ calls = 0
  /\ updates = 0
  /\ calledArgs = {}
  /\ burst = [arg |-> Null, since |-> DebounceTime + 1, updates |-> 0]

\* the debounced setter that leaves a pending timer alone
debouncedSetState_keepFirst(v) ==
  /\ calls < MaxCalls
  /\ IF clearTimeout(timers, timeout) # timers
     THEN UNCHANGED <<timers, timeout>>
     ELSE /\ timers' = setTimeout(timers, FreshHandle, DebounceTime, v)
          /\ timeout' = FreshHandle
  /\ calls' = calls + 1
  /\ calledArgs' = calledArgs \cup {v}
  /\ burst' = [arg |-> v, since |-> 0, updates |-> 0]
  /\ UNCHANGED <<debounced, updates>>
  /\ UNCHANGED <<trackerVars, gridVars>>

\* the debounced setter without clearTimeout
debouncedSetState_noClear(v) ==
  /\ calls < MaxCalls
  /\ timers' = setTimeout(timers, FreshHandle, DebounceTime, v)
  /\ timeout' = FreshHandle
  /\ calls' = calls + 1
  /\ calledArgs' = calledArgs \cup {v}
  /\ burst' = [arg |-> v, since |-> 0, updates |-> 0]
  /\ UNCHANGED <<debounced, updates>>
  /\ UNCHANGED <<trackerVars, gridVars>>

\* (...args) => { clearTimeout(timeout); timeout = setTimeout(cb, time, ...args) }
debouncedSetState(v) ==
  /\ calls < MaxCalls
  /\ timers' = setTimeout(clearTimeout(timers, timeout), FreshHandle, DebounceTime, v)
  /\ timeout' = FreshHandle
  /\ calls' = calls + 1
  /\ calledArgs' = calledArgs \cup {v}
  /\ burst' = [arg |-> v, since |-> 0, updates |-> 0]
  /\ UNCHANGED <<debounced, updates>>
  /\ UNCHANGED <<trackerVars, gridVars>>

\* a timer is due: the host calls cb(...args), which is setState(args)
timerFires ==
  \E t \in timers :
    /\ t.remaining = 0
    /\ debounced' = t.args
    /\ timers' = timers \ {t}
    /\ updates' = updates + 1
    /\ burst' = [burst EXCEPT !.updates = @ + 1]
    /\ UNCHANGED <<timeout, calls, calledArgs>>
    /\ UNCHANGED <<trackerVars, gridVars>>

\* one time unit passes; a due timer fires before time moves on
tick ==
  /\ \A t \in timers : t.remaining > 0
  /\ timers' = {[t EXCEPT !.remaining = @ - 1] : t \in timers}
  /\ burst' = [burst EXCEPT !.since = IF @ <= DebounceTime THEN @ + 1 ELSE @]
  /\ UNCHANGED <<debounced, timeout, calls, updates, calledArgs>>
  /\ UNCHANGED <<trackerVars, gridVars>>

\* ---------------------------------------------------------------- grid
\* numbers are counted in thousandths: Math.random() is r / Scale
Scale == 1000

\* the grids the functions are called with: R rows of C cells, every cell
\* different, with values inside and outside [0, 100)
GridBases == {0, 200}
Grids ==
  {[r \in 0..(R - 1) |-> [c \in 0..(C - 1) |-> (b + r * C + c + 1) * Scale]] :
     R \in 0..MaxRows, C \in 0..MaxCols, b \in GridBases}

\* the (row, column) positions of a grid
Positions(g) == UNION {{<<r, c>> : c \in DOMAIN g[r]} : r \in DOMAIN g}

\* what Math.random() returns, in thousandths
Randoms == {0, 700, 701, 999}
\* the two draws updateGridState makes for a cell: the one compared with 0.7
\* and, when that one is larger, the one that makes the value
CellDraws == {<<700, 0>>, <<701, 0>>, <<999, 999>>}

\* the fresh value rounded to a whole number
random100_rounded(r) == ((r * 100 + Scale \div 2) \div Scale) * Scale

\* Math.random() * 100
random100(r) == r * 100

\* grid.map(row => row.map(cell => Math.random() > 0.7 ? Math.random() * 100 : cell))
updateGridState(g, rnd) ==
  [r \in DOMAIN g |->
     [c \in DOMAIN g[r] |->
        IF rnd[<<r, c>>][1] * 10 > 7 * Scale
        THEN random100(rnd[<<r, c>>][2])
        ELSE g[r][c]]]

\* the cell update that tests the column only
updateGridCellState_anyRow(g, row, column, r) ==
  [rI \in DOMAIN g |->
     [cI \in DOMAIN g[rI] |->
        IF cI = column THEN random100(r) ELSE g[rI][cI]]]

\* grid.map((cells, rI) => rI === row
\*   ? cells.map((cell, cI) => cI === column ? Math.random() * 100 : cell)
\*   : cells)
updateGridCellState(g, row, column, r) ==
  [rI \in DOMAIN g |->
     IF rI = row
     THEN [cI \in DOMAIN g[rI] |->
             IF cI = column THEN random100(r) ELSE g[rI][cI]]
     ELSE g[rI]]

NoGridCall == [op |-> "none", row |-> 0, column |-> 0]

\* a grid to call the functions with
gridInit ==
  /\ grid \in Grids
  /\ result = grid
  /\ gridCall = NoGridCall

\* result = updateGridState(grid)
callUpdateGridState ==
  /\ gridCall = NoGridCall
  /\ \E rnd \in [Positions(grid) -> CellDraws] :
       result' = updateGridState(grid, rnd)
  /\ gridCall' = [op |-> "updateGridState", row |-> 0, column |-> 0]
  /\ UNCHANGED grid
  /\ UNCHANGED <<trackerVars, debounceVars>>

\* result = updateGridCellState(grid, {row, column})
callUpdateGridCellState(row, column) ==
  /\ gridCall = NoGridCall
  /\ \E r \in Randoms :
       result' = updateGridCellState(grid, row, column, r)
  /\ gridCall' = [op |-> "updateGridCellState", row |-> row, column |-> column]
  /\ UNCHANGED grid
  /\ UNCHANGED <<trackerVars, debounceVars>>

\* ------------------------------------------------------------- tracker
\* the other components while one component is exercised
debounceUnused == useDebouncedState(Null)
gridUnused ==
  /\ grid = <<>>
  /\ result = <<>>
  /\ gridCall = NoGridCall

\* the tracker whose liveness flag starts true: React.useRef(true)
Init_mounted ==
  /\ debounceUnused
  /\ gridUnused
  /\ \E initialState \in InitialStates :
       initialStateRef = reducer(defaultInitialState, initialState)
  /\ state = initialStateRef
  /\ mounted = TRUE
  /\ lifecycle = "rendering"
  /\ inflight = [s \in Slots |-> Free]
  /\ last = Outcome("useAsync", 0, FALSE, "none", Null)

\* useAsync(initialState), before the layout effect has run
Init ==
  /\ debounceUnused
  /\ gridUnused
  /\ \E initialState \in InitialStates :
       initialStateRef = reducer(defaultInitialState, initialState)
  /\ state = initialStateRef
  /\ mounted = FALSE
  /\ lifecycle = "rendering"
  /\ inflight = [s \in Slots |-> Free]
  /\ last = Outcome("useAsync", 0, FALSE, "none", Null)

\* React.useLayoutEffect(() => { mounted.current = true ... }, [])
attach ==
  /\ lifecycle = "rendering"
  /\ lifecycle' = "attached"
  /\ mounted' = TRUE
  /\ last' = Outcome("attach", 0, FALSE, "none", Null)
  /\ UNCHANGED <<state, initialStateRef, inflight>>
  /\ UNCHANGED <<debounceVars, gridVars>>

\* the effect's cleanup: return () => (mounted.current = false)
detach ==
  /\ lifecycle = "attached"
  /\ lifecycle' = "detached"
  /\ mounted' = FALSE
  /\ last' = Outcome("detach", 0, FALSE, "none", Null)
  /\ UNCHANGED <<state, initialStateRef, inflight>>
  /\ UNCHANGED <<debounceVars, gridVars>>

\* run going to 'pending' before it checks its argument
run_pendingFirst(promise) ==
  /\ UNCHANGED <<debounceVars, gridVars>>
  /\ IF NotAPromise(promise)
     THEN /\ state' = safeSetState([status |-> "pending"])
          /\ last' = Outcome("run", 0, TRUE, "none", Null)
          /\ UNCHANGED <<initialStateRef, mounted, lifecycle, inflight>>
     ELSE /\ FreeSlots # {}
          /\ state' = safeSetState([status |-> "pending"])
          /\ inflight' = [inflight EXCEPT ![NextSlot] = promise]
          /\ last' = Outcome("run", NextSlot, FALSE, "none", Null)
          /\ UNCHANGED <<initialStateRef, mounted, lifecycle>>

\* run clearing data and error when it goes to 'pending'
run_clearing(promise) ==
  /\ UNCHANGED <<debounceVars, gridVars>>
  /\ IF NotAPromise(promise)
     THEN /\ last' = Outcome("run", 0, TRUE, "none", Null)
          /\ UNCHANGED <<state, initialStateRef, mounted, lifecycle, inflight>>
     ELSE /\ FreeSlots # {}
          /\ state' = safeSetState([status |-> "pending", data |-> Null, error |-> Null])
          /\ inflight' = [inflight EXCEPT ![NextSlot] = promise]
          /\ last' = Outcome("run", NextSlot, FALSE, "none", Null)
          /\ UNCHANGED <<initialStateRef, mounted, lifecycle>>

\* run(promise)
run(promise) ==
  /\ UNCHANGED <<debounceVars, gridVars>>
  /\ IF NotAPromise(promise)
     THEN /\ last' = Outcome("run", 0, TRUE, "none", Null)
          /\ UNCHANGED <<state, initialStateRef, mounted, lifecycle, inflight>>
     ELSE /\ FreeSlots # {}
          /\ state' = safeSetState([status |-> "pending"])
          /\ inflight' = [inflight EXCEPT ![NextSlot] = promise]
          /\ last' = Outcome("run", NextSlot, FALSE, "none", Null)
          /\ UNCHANGED <<initialStateRef, mounted, lifecycle>>

\* the success continuation that does not store the value
onFulfilled_noData(s) ==
  /\ inflight[s].outcome = "resolve"
  /\ state' = safeSetState([status |-> "resolved"])
  /\ inflight' = [inflight EXCEPT ![s] = Free]
  /\ last' = Outcome("onFulfilled", s, FALSE, "fulfilled", inflight[s].value)
  /\ UNCHANGED <<initialStateRef, mounted, lifecycle>>
  /\ UNCHANGED <<debounceVars, gridVars>>

\* the success continuation that also clears a previous error
onFulfilled_clearing(s) ==
  /\ inflight[s].outcome = "resolve"
  /\ state' = safeSetState([data |-> inflight[s].value, status |-> "resolved",
                            error |-> Null])
  /\ inflight' = [inflight EXCEPT ![s] = Free]
  /\ last' = Outcome("onFulfilled", s, FALSE, "fulfilled", inflight[s].value)
  /\ UNCHANGED <<initialStateRef, mounted, lifecycle>>
  /\ UNCHANGED <<debounceVars, gridVars>>

\* data => { safeSetState({data, status: 'resolved'}); return data }
onFulfilled(s) ==
  /\ inflight[s].outcome = "resolve"
  /\ state' = safeSetState([data |-> inflight[s].value, status |-> "resolved"])
  /\ inflight' = [inflight EXCEPT ![s] = Free]
  /\ last' = Outcome("onFulfilled", s, FALSE, "fulfilled", inflight[s].value)
  /\ UNCHANGED <<initialStateRef, mounted, lifecycle>>
  /\ UNCHANGED <<debounceVars, gridVars>>

\* the failure continuation that stores the reason under data
onRejected_asData(s) ==
  /\ inflight[s].outcome = "reject"
  /\ state' = safeSetState([status |-> "rejected", data |-> inflight[s].value])
  /\ inflight' = [inflight EXCEPT ![s] = Free]
  /\ last' = Outcome("onRejected", s, FALSE, "fulfilled", inflight[s].value)
  /\ UNCHANGED <<initialStateRef, mounted, lifecycle>>
  /\ UNCHANGED <<debounceVars, gridVars>>

\* the failure continuation that returns what the gated dispatch returns
onRejected_noReturn(s) ==
  /\ inflight[s].outcome = "reject"
  /\ state' = safeSetState([status |-> "rejected", error |-> inflight[s].value])
  /\ inflight' = [inflight EXCEPT ![s] = Free]
  /\ last' = Outcome("onRejected", s, FALSE, "fulfilled", Null)
  /\ UNCHANGED <<initialStateRef, mounted, lifecycle>>
  /\ UNCHANGED <<debounceVars, gridVars>>

\* the failure continuation applied only when no other promise is in flight
onRejected_ifAlone(s) ==
  /\ inflight[s].outcome = "reject"
  /\ state' = IF \A t \in Slots \ {s} : inflight[t] = Free
               THEN safeSetState([status |-> "rejected", error |-> inflight[s].value])
               ELSE state
  /\ inflight' = [inflight EXCEPT ![s] = Free]
  /\ last' = Outcome("onRejected", s, FALSE, "fulfilled", inflight[s].value)
  /\ UNCHANGED <<initialStateRef, mounted, lifecycle>>
  /\ UNCHANGED <<debounceVars, gridVars>>

\* error => { safeSetState({status: 'rejected', error}); return error }
onRejected(s) ==
  /\ inflight[s].outcome = "reject"
  /\ state' = safeSetState([status |-> "rejected", error |-> inflight[s].value])
  /\ inflight' = [inflight EXCEPT ![s] = Free]
  /\ last' = Outcome("onRejected", s, FALSE, "fulfilled", inflight[s].value)
  /\ UNCHANGED <<initialStateRef, mounted, lifecycle>>
  /\ UNCHANGED <<debounceVars, gridVars>>

\* setData that also marks the tracker resolved
setData_resolving(v) ==
  /\ state' = safeSetState([data |-> v, status |-> "resolved"])
  /\ last' = Outcome("setData", 0, FALSE, "none", Null)
  /\ UNCHANGED <<initialStateRef, mounted, lifecycle, inflight>>
  /\ UNCHANGED <<debounceVars, gridVars>>

\* data => safeSetState({data})
setData(v) ==
  /\ state' = safeSetState([data |-> v])
  /\ last' = Outcome("setData", 0, FALSE, "none", Null)
  /\ UNCHANGED <<initialStateRef, mounted, lifecycle, inflight>>
  /\ UNCHANGED <<debounceVars, gridVars>>

\* error => safeSetState({error})
setError(v) ==
  /\ state' = safeSetState([error |-> v])
  /\ last' = Outcome("setError", 0, FALSE, "none", Null)
  /\ UNCHANGED <<initialStateRef, mounted, lifecycle, inflight>>
  /\ UNCHANGED <<debounceVars, gridVars>>

\* reset going back to the default constant instead of the snapshot
reset_toDefault ==
  /\ state' = safeSetState(defaultInitialState)
  /\ last' = Outcome("reset", 0, FALSE, "none", Null)
  /\ UNCHANGED <<initialStateRef, mounted, lifecycle, inflight>>
  /\ UNCHANGED <<debounceVars, gridVars>>

\* reset that also drops the continuations of the promises in flight
reset_cancelling ==
  /\ state' = safeSetState(initialStateRef)
  /\ inflight' = [s \in Slots |-> Free]
  /\ last' = Outcome("reset", 0, FALSE, "none", Null)
  /\ UNCHANGED <<initialStateRef, mounted, lifecycle>>
  /\ UNCHANGED <<debounceVars, gridVars>>

\* () => safeSetState(initialStateRef.current)
reset ==
  /\ state' = safeSetState(initialStateRef)
  /\ last' = Outcome("reset", 0, FALSE, "none", Null)
  /\ UNCHANGED <<initialStateRef, mounted, lifecycle, inflight>>
  /\ UNCHANGED <<debounceVars, gridVars>>

Next ==
  \/ attach
  \/ detach
  \/ \E promise \in Arguments : run(promise)
  \/ \E s \in Slots : onFulfilled(s)
  \/ \E s \in Slots : onRejected(s)
  \/ \E v \in Values \cup {Null} : setData(v)
  \/ \E v \in Values \cup {Null} : setError(v)
  \/ reset

Spec == Init /\ [][Next]_vars

\* a promise passed to run does settle, and its continuation then runs
FairSpec ==
  /\ Spec
  /\ \A s \in Slots : WF_vars(onFulfilled(s)) /\ WF_vars(onRejected(s))

\* the tracker as useAsync() builds it, while another component is exercised
trackerUnused ==
  /\ initialStateRef = defaultInitialState
  /\ state = initialStateRef
  /\ mounted = FALSE
  /\ lifecycle = "rendering"
  /\ inflight = [s \in Slots |-> Free]
  /\ last = Outcome("useAsync", 0, FALSE, "none", Null)

DebounceInit ==
  /\ trackerUnused
  /\ gridUnused
  /\ \E initialState \in Values \cup {Null} : useDebouncedState(initialState)

DebounceNext ==
  \/ \E v \in Values : debouncedSetState(v)
  \/ timerFires
  \/ tick

DebounceSpec == DebounceInit /\ [][DebounceNext]_vars

GridInit ==
  /\ trackerUnused
  /\ debounceUnused
  /\ gridInit

GridNext ==
  \/ callUpdateGridState
  \/ \E row \in (-1)..MaxRows : \E column \in (-1)..MaxCols :
       callUpdateGridCellState(row, column)

GridSpec == GridInit /\ [][GridNext]_vars

TypeOK ==
  /\ status \in Statuses
  /\ mounted = (lifecycle = "attached")

\* the promise that resolves / rejects with v, as run receives it
Resolving(v) == [truthy |-> TRUE, then |-> TRUE, outcome |-> "resolve", value |-> v]
Rejecting(v) == [truthy |-> TRUE, then |-> TRUE, outcome |-> "reject", value |-> v]

Bool2Nat(b) == IF b THEN 1 ELSE 0

C2_NoChangeAfterTeardown ==
  [][lifecycle = "detached" =>
       /\ status' = status /\ data' = data /\ error' = error
       /\ lifecycle' = "detached"]_vars

\* a promise resolved after teardown with a value that is not in data
C2_Witness ==
  /\ lifecycle = "detached"
  /\ last.op = "onFulfilled"
  /\ data # last.retval

\* ------------------------------------------------------------------ C3
\* C3: a promise resolving to v that was passed to run and is unsettled on an
\* attached tracker leads to a state, reached by its own continuation, where
\* status is 'resolved' and data is v, unless the view is torn down first.
C3_ResolvedEventually ==
  \A s \in Slots : \A v \in Values :
    (mounted /\ inflight[s] = Resolving(v))
      ~> \/ ~mounted
         \/ /\ last.op = "onFulfilled" /\ last.slot = s
            /\ status = "resolved" /\ data = v

\* the continuation of a resolving promise ran on the attached tracker
C3_Witness ==
  /\ mounted
  /\ last.op = "onFulfilled"
  /\ status = "resolved" /\ data = last.retval

\* ------------------------------------------------------------------ C4
\* C4: a promise rejecting with v that was passed to run and is unsettled on
\* an attached tracker leads to a state, reached by its own continuation,
\* where status is 'rejected' and error is v and nothing was thrown, unless
\* the view is torn down first.
C4_RejectedEventually ==
  \A s \in Slots : \A v \in Values :
    (mounted /\ inflight[s] = Rejecting(v))
      ~> \/ ~mounted
         \/ /\ last.op = "onRejected" /\ last.slot = s /\ ~last.thrown
            /\ status = "rejected" /\ error = v

\* the continuation of a rejecting promise ran on the attached tracker
C4_Witness ==
  /\ mounted
  /\ last.op = "onRejected" /\ ~last.thrown
  /\ status = "rejected" /\ error = last.retval

\* ------------------------------------------------------------------ C5
\* C5: run called with a value that is not awaitable (falsy, or without a
\* then member) throws synchronously and leaves status, data and error as
\* they were; it does not go to 'pending' and registers no continuation.
C5_NonPromiseThrows ==
  [][\A promise \in Arguments :
       (NotAPromise(promise) /\ run(promise)) =>
          /\ last'.op = "run" /\ last'.thrown
          /\ status' = status /\ data' = data /\ error' = error
          /\ inflight' = inflight]_vars

\* run threw on an attached tracker that is not pending
C5_Witness ==
  /\ mounted
  /\ last.op = "run" /\ last.thrown
  /\ status # "pending"

\* ------------------------------------------------------------------ C6
\* C6: the awaitable returned by run settles as the promise passed in does:
\* it resolves with X when the promise resolves with X and rejects with E
\* when the promise rejects with E.
C6_ForwardsOutcome ==
  [][\A s \in Slots :
       /\ onFulfilled(s) =>
            last'.ret = "fulfilled" /\ last'.retval = inflight[s].value
       /\ onRejected(s) =>
            last'.ret = "rejected" /\ last'.retval = inflight[s].value]_vars

\* ------------------------------------------------------------------ C7
\* C7: on an attached tracker, right after reset() the whole state (status,
\* data, error and any extra field the caller supplied) equals the snapshot
\* taken at construction: the defaults overridden by the caller's initial
\* values.
C7_ResetRestoresSnapshot ==
  (mounted /\ last.op = "reset") =>
     /\ state = initialStateRef
     /\ \E initialState \in InitialStates :
          state = reducer(defaultInitialState, initialState)

\* reset ran on an attached tracker built with overrides, a run in flight
C7_Witness ==
  /\ mounted
  /\ last.op = "reset"
  /\ initialStateRef # defaultInitialState
  /\ state = initialStateRef
  /\ \E s \in Slots : inflight[s] # Free

\* ------------------------------------------------------------------ C8
\* C8: every change of status follows idle -> pending -> resolved | rejected:
\* status becomes 'pending' only by a run call, and becomes 'resolved' or
\* 'rejected' only from 'pending'; only reset may restore the initial status.
C8_StateMachine ==
  [][status' # status =>
       \/ reset
       \/ /\ status' = "pending"
          /\ \E promise \in Arguments : run(promise)
       \/ /\ status' \in {"resolved", "rejected"}
          /\ status = "pending"]_vars

\* ------------------------------------------------------------------ C9
\* C9: when run accepts an awaitable on an attached tracker, status is
\* 'pending' right after the call and data and error are unchanged.
C9_RunGoesPending ==
  [][\A promise \in Arguments :
       (mounted /\ ~NotAPromise(promise) /\ run(promise)) =>
          /\ status' = "pending"
          /\ data' = data /\ error' = error]_vars

\* run was accepted on an attached tracker that holds data and an error
C9_Witness ==
  /\ mounted
  /\ last.op = "run" /\ ~last.thrown
  /\ status = "pending"
  /\ data # Null /\ error # Null

\* ----------------------------------------------------------------- C10
\* C10: on an attached tracker setData(v) sets data to v and leaves status
\* and error unchanged, and setError(e) sets error to e and leaves status
\* and data unchanged.
C10_ManualOverrides ==
  [][\A v \in Values \cup {Null} :
       /\ (mounted /\ setData(v)) =>
             data' = v /\ status' = status /\ error' = error
       /\ (mounted /\ setError(v)) =>
             error' = v /\ status' = status /\ data' = data]_vars

\* setError ran on an attached tracker whose status is 'resolved'
C10_Witness ==
  /\ mounted
  /\ last.op = "setError"
  /\ status = "resolved"
  /\ error # Null /\ data # Null

\* ----------------------------------------------------------------- C14
\* C14: a settlement touches only its own field: the success continuation
\* leaves error as it was (a prior error is not cleared) and the failure
\* continuation leaves data as it was.
C14_SettlementKeepsOtherField ==
  [][\A s \in Slots :
       /\ onFulfilled(s) => error' = error
       /\ onRejected(s) => data' = data]_vars

\* a promise resolved on the attached tracker while error holds a value
C14_Witness ==
  /\ mounted
  /\ last.op = "onFulfilled"
  /\ status = "resolved" /\ data = last.retval
  /\ error # Null

\* ----------------------------------------------------------------- C15
\* C15: after teardown the state is left alone but the operation is not
\* cancelled: a promise settling after teardown still settles the awaitable
\* run returned with the promise's value, run still registers its
\* continuation for a promise and still throws for a non-awaitable, and
\* status, data and error do not change.
C15_TeardownKeepsOperation ==
  [][lifecycle = "detached" =>
       /\ \A s \in Slots :
            (onFulfilled(s) \/ onRejected(s)) =>
               /\ last'.ret # "none" /\ last'.retval = inflight[s].value
               /\ state' = state
       /\ \A promise \in Arguments :
            run(promise) =>
               /\ state' = state
               /\ last'.thrown = NotAPromise(promise)
               /\ ~NotAPromise(promise) => inflight'[NextSlot] = promise]_vars

\* a promise rejected after teardown: its value is returned, not stored
C15_Witness ==
  /\ lifecycle = "detached"
  /\ last.op = "onRejected"
  /\ last.ret # "none" /\ last.retval # Null
  /\ error # last.retval

\* ----------------------------------------------------------------- C16
\* C16: on an attached tracker the last settlement wins: right after any
\* continuation, whichever run call it belongs to and whatever else is still
\* in flight, the state holds that continuation's outcome, so status is
\* 'resolved' or 'rejected' and not 'pending'.
C16_LastSettlementWins ==
  mounted =>
    /\ last.op = "onFulfilled" => status = "resolved" /\ data = last.retval
    /\ last.op = "onRejected" => status = "rejected" /\ error = last.retval

\* the second of two overlapping runs settled first; the first is in flight
C16_Witness ==
  /\ mounted
  /\ last.op = "onRejected" /\ last.slot = 2
  /\ inflight[1] # Free
  /\ status = "rejected"

\* ----------------------------------------------------------------- C17
\* C17: reset on an attached tracker restores the snapshot but leaves the
\* promises in flight, and a continuation that runs right after the reset
\* still moves the tracker to 'resolved' (storing data) or 'rejected'
\* (storing error).
C17_ResetDoesNotCancel ==
  [][mounted =>
       /\ reset => state' = initialStateRef /\ inflight' = inflight
       /\ last.op = "reset" =>
            \A s \in Slots :
              /\ onFulfilled(s) =>
                   status' = "resolved" /\ data' = inflight[s].value
              /\ onRejected(s) =>
                   status' = "rejected" /\ error' = inflight[s].value]_vars

\* reset ran while a promise was in flight: the tracker is idle again and
\* the promise's continuation is still registered
C17_Witness ==
  /\ mounted
  /\ last.op = "reset"
  /\ status = "idle"
  /\ \E s \in Slots : inflight[s].outcome = "resolve"

\* ----------------------------------------------------------------- C18
\* C18: until the view attaches the liveness flag is false and the state is
\* the constructor's snapshot, whatever run, setData, setError or reset call
\* or settlement happens; no step changes the state while the flag is false,
\* and the flag becomes true only by the attach step.
C18_NothingBeforeAttach ==
  /\ [](lifecycle = "rendering" => ~mounted /\ state = initialStateRef)
  /\ [][/\ ~mounted => state' = state
        /\ (~mounted /\ mounted') => attach]_vars

\* run accepted a promise before attachment and the tracker is not pending
C18_Witness ==
  /\ lifecycle = "rendering"
  /\ last.op = "run" /\ ~last.thrown
  /\ status # "pending"

\* two grids have the same rows and the same columns in each row
SameShape(a, b) ==
  /\ DOMAIN a = DOMAIN b
  /\ \A r \in DOMAIN a : DOMAIN a[r] = DOMAIN b[r]

\* (row, column) is a position of the grid
InGrid(g, row, column) == row \in DOMAIN g /\ column \in DOMAIN g[row]

\* 0 <= v < 100
InUnit(v) == 0 <= v /\ v < 100 * Scale

\* ----------------------------------------------------------------- C11
\* C11: a call of the debounced setter while an update is pending cancels
\* it and schedules a new one 200 time units ahead without updating the
\* state; an update is applied only 200 time units after the last call, with
\* that call's argument, and once; and when more than 200 time units have
\* passed since the last call, exactly one update was applied since it and
\* the state is its argument.
C11_LastCallOfBurstWins ==
  /\ [](burst.since > DebounceTime /\ calls > 0 =>
          /\ timers = {}
          /\ burst.updates = 1
          /\ debounced = burst.arg)
  /\ [][/\ \A v \in Values :
             (debouncedSetState(v) /\ timers # {}) =>
                /\ timers' = {[id |-> timeout', remaining |-> DebounceTime,
                               args |-> v]}
                /\ timeout' \notin {t.id : t \in timers}
                /\ debounced' = debounced
        /\ timerFires =>
             /\ burst.since = DebounceTime
             /\ burst.updates = 0
             /\ debounced' = burst.arg]_vars

\* a burst of calls with both arguments ended 200 time units ago and the
\* single update of the whole run was just applied
C11_Witness ==
  /\ calls >= 2
  /\ calledArgs = Values
  /\ updates = 1 /\ burst.updates = 1
  /\ burst.since = DebounceTime
  /\ debounced = burst.arg

\* ----------------------------------------------------------------- C12
\* C12: updateGridCellState returns a grid of the same dimensions whose
\* cells at every position other than (row, column) equal the input's; the
\* input grid is not modified; and when (row, column) is outside the grid
\* the result equals the input.
C12_CellUpdateFrame ==
  /\ [](gridCall.op = "updateGridCellState" =>
          /\ SameShape(result, grid)
          /\ \A p \in Positions(grid) :
               p # <<gridCall.row, gridCall.column>> =>
                  result[p[1]][p[2]] = grid[p[1]][p[2]]
          /\ ~InGrid(grid, gridCall.row, gridCall.column) => result = grid)
  /\ [][grid' = grid]_vars

\* a cell of a grid of at least four cells was replaced
C12_Witness ==
  /\ gridCall.op = "updateGridCellState"
  /\ InGrid(grid, gridCall.row, gridCall.column)
  /\ Cardinality(Positions(grid)) >= 4
  /\ result # grid

\* ----------------------------------------------------------------- C13
\* C13: updateGridState returns a grid of the same dimensions in which each
\* cell equals the input cell at its position or is a value v with
\* 0 <= v < 100, and the cell updateGridCellState replaces is such a value.
C13_FreshValuesInRange ==
  /\ gridCall.op = "updateGridState" =>
       /\ SameShape(result, grid)
       /\ \A p \in Positions(grid) :
            \/ result[p[1]][p[2]] = grid[p[1]][p[2]]
            \/ InUnit(result[p[1]][p[2]])
  /\ (/\ gridCall.op = "updateGridCellState"
      /\ InGrid(grid, gridCall.row, gridCall.column)) =>
       InUnit(result[gridCall.row][gridCall.column])

\* updateGridState replaced a cell and kept a cell whose value is not in
\* [0, 100)
C13_Witness ==
  /\ gridCall.op = "updateGridState"
  /\ \E p \in Positions(grid) : result[p[1]][p[2]] # grid[p[1]][p[2]]
  /\ \E p \in Positions(grid) :
       /\ result[p[1]][p[2]] = grid[p[1]][p[2]]
       /\ ~InUnit(grid[p[1]][p[2]])

\* ----------------------------------------------------------------- C19
\* C19: at most one delayed update is scheduled at any time, the number of
\* updates applied never exceeds the number of setter calls, and an applied
\* value is the argument of an earlier setter call.
C19_OneTimerAtMost ==
  /\ Cardinality(timers) <= 1
  /\ updates <= calls
  /\ updates > 0 => debounced \in calledArgs

\* an update was applied and a later call's update is scheduled
C19_Witness ==
  /\ Cardinality(timers) = 1
  /\ updates >= 1
  /\ calls > updates
====
